---- MODULE Spec2Model ----
(***************************************************************************)
(* Model of the token / key-rotation core of mts_server:                   *)
(*   src/src/auth/mod.rs      (Key, Secret, Claim::from_token, to_token,   *)
(*                             Claim::from_request_sync,                   *)
(*                             AuthenticateMiddleware::call)               *)
(*   src/src/auth/service.rs  (sign_in, check_claim)                       *)
(*   src/src/api/mod.rs       (ServiceError::error_response)               *)
(* Workers are request-handling threads sharing one Mutex<Secret>, which   *)
(* is registered as application data.  The system clock never goes back.   *)
(* Byte strings are sequences of integers; a token string is a sequence    *)
(* of characters (integers).  HMAC is an ideal MAC: an injective function  *)
(* of (key bytes, message); OsRng yields key bytes that were never used    *)
(* before and that the attacker (key bytes 0) cannot guess.  poisoned is   *)
(* the poison flag of the mutex, set when a holder panics.  created holds   *)
(* the users that add_user inserted into the user table.                   *)
(*                                                                         *)
(* event is a history variable: what the last step returned to its caller  *)
(* (NoEvent when the step returned nothing).  held is the issued token     *)
(* the model follows, with the claim, the key and the time it came from;   *)
(* clients present it, tampered versions of it and malformed strings.      *)
(***************************************************************************)
EXTENDS Integers, Sequences, FiniteSets, TLC

VARIABLES now, ticks, keys, generated, lock, poisoned, created, pc, local, held, event

vars == <<now, ticks, keys, generated, lock, poisoned, created, pc, local, held, event>>

----------------------------------------------------------------------------
(* Bounds of the model *)

\* UNIX time at which the process starts
BootTime == 1000
\* how many times the clock advances
MaxTicks == 2
\* how many keys the direct calls of to_token may generate (SpecCodec)
MaxKeys == 2

(* Program constants *)

TOKEN_DURATION == 2 * 24 * 60 * 60

\* '.', the separator of the two token segments
Dot == 46
\* '!', a character outside the base64 alphabet
BadChar == 33
\* 'A', the first character of the base64 alphabet (characters from here on
\* are alphabet characters)
B64A == 65

Workers == {1, 2}
NoHolder == 0

\* the user table: user 1 is an ordinary user, user 2 the admin; name 3 is
\* not in the table
UserNames == {1, 2, 3}
Users == {1, 2}
UserIsAdmin(u) == u = 2

\* create_user: the row it inserts (the id stands for the name as well)
CreateUser(name, is_admin) == [id |-> name, is_admin |-> is_admin]

\* how far the clock advances in one step
Steps == {1, TOKEN_DURATION}
\* the same for runs in which sign-ins are more than a claim's lifetime apart
LongSteps == {TOKEN_DURATION + 1}

----------------------------------------------------------------------------
(* Pure functions *)

Bit(b) == IF b THEN 1 ELSE 0

NoClaim == [id |-> 0, expires |-> 0, is_admin |-> FALSE]

\* faulty variant: the privilege flag is not serialized
ToVec_NoFlag(claim) == <<claim.id, claim.expires, 0>>

\* serde_cbor::to_vec(claim)
ToVec(claim) == <<claim.id, claim.expires, Bit(claim.is_admin)>>

\* serde_cbor::from_slice::<Claim>(bytes)
FromSliceOk(bytes) == Len(bytes) = 3 /\ bytes[3] \in {0, 1}
FromSlice(bytes) == [id |-> bytes[1], expires |-> bytes[2], is_admin |-> bytes[3] = 1]

\* SimpleHmac::<Sha256>: new_from_slice(key), update(msg), finalize()
Hmac(keyBytes, msg) == <<keyBytes>> \o msg

\* mac.verify_slice(signature).is_ok()
VerifySlice(keyBytes, msg, signature) == signature = Hmac(keyBytes, msg)

\* STANDARD.encode(bytes)
B64Encode(bytes) == [i \in 1..Len(bytes) |-> bytes[i] + B64A]

\* STANDARD.decode(text).ok()
B64DecodeOk(text) == \A i \in 1..Len(text) : text[i] >= B64A
B64Decode(text) == [i \in 1..Len(text) |-> text[i] - B64A]

\* format!("{}.{}", claim_code, signature_code)
Format(claim_code, signature_code) == claim_code \o <<Dot>> \o signature_code

\* s.split(".")
RECURSIVE Split(_)
Split(s) ==
    IF \A i \in 1..Len(s) : s[i] # Dot
    THEN <<s>>
    ELSE LET i == CHOOSE i \in 1..Len(s) :
                      s[i] = Dot /\ \A j \in 1..(i - 1) : s[j] # Dot
         IN  <<SubSeq(s, 1, i - 1)>> \o Split(SubSeq(s, i + 1, Len(s)))

ParseFail == [ok |-> FALSE, claim_raw |-> <<>>, signature_raw |-> <<>>]

\* faulty variant: segments after the second are ignored
ParseToken_IgnoreExtra(s) ==
    LET parts == Split(s)
    IN  IF ~B64DecodeOk(parts[1]) THEN ParseFail
        ELSE IF Len(parts) < 2 THEN ParseFail
        ELSE IF ~B64DecodeOk(parts[2]) THEN ParseFail
        ELSE [ok |-> TRUE,
              claim_raw |-> B64Decode(parts[1]),
              signature_raw |-> B64Decode(parts[2])]

\* from_token, the part before the key store is touched
ParseToken(s) ==
    LET parts == Split(s)
    IN  IF ~B64DecodeOk(parts[1]) THEN ParseFail
        ELSE IF Len(parts) < 2 THEN ParseFail
        ELSE IF ~B64DecodeOk(parts[2]) THEN ParseFail
        ELSE IF Len(parts) > 2 THEN ParseFail
        ELSE [ok |-> TRUE,
              claim_raw |-> B64Decode(parts[1]),
              signature_raw |-> B64Decode(parts[2])]

\* faulty variant: a key is dropped a claim's lifetime before it expires
KeyExpired_Early(key, current_timestamp) ==
    key.expires <= current_timestamp + TOKEN_DURATION

\* faulty variant: a key is still used in the second it expires
KeyExpired_Strict(key, current_timestamp) == key.expires < current_timestamp

\* key.expires <= current_timestamp
KeyExpired(key, current_timestamp) == key.expires <= current_timestamp

\* faulty variant: only the newest key is kept
ShouldPop_KeepNewest(ks, current_timestamp) ==
    Len(ks) > 1 \/ (ks # <<>> /\ KeyExpired(Head(ks), current_timestamp))

\* the condition of the pruning loop: there is a front key and it has expired
ShouldPop(ks, current_timestamp) ==
    ks # <<>> /\ KeyExpired(Head(ks), current_timestamp)

\* claim.expires < current_timestamp
ClaimExpired(claim, current_timestamp) == claim.expires < current_timestamp

\* faulty variant: the result of verify_slice is ignored
Valid_AnyKey(ks, claim_raw, signature_raw) == ks # <<>>

\* the scan of the retained keys for one that validates the signature
Valid(ks, claim_raw, signature_raw) ==
    \E i \in 1..Len(ks) : VerifySlice(ks[i].bytes, claim_raw, signature_raw)

\* from_token after the pruning loop: Ok(claim) or Err(TokenError)
Verified(ks, p, current_timestamp) ==
    IF ~FromSliceOk(p.claim_raw) THEN [ok |-> FALSE, claim |-> NoClaim]
    ELSE IF ClaimExpired(FromSlice(p.claim_raw), current_timestamp)
         THEN [ok |-> FALSE, claim |-> NoClaim]
    ELSE IF Valid(ks, p.claim_raw, p.signature_raw)
         THEN [ok |-> TRUE, claim |-> FromSlice(p.claim_raw)]
    ELSE [ok |-> FALSE, claim |-> NoClaim]

\* faulty variant: the key must outlive the claim by a claim's lifetime
HasKey_Margin(ks, claim) ==
    ks # <<>> /\ ks[Len(ks)].expires > claim.expires + TOKEN_DURATION

\* faulty variant: the comparison is the wrong way round
HasKey_Reversed(ks, claim) == ks # <<>> /\ ks[Len(ks)].expires <= claim.expires

\* faulty variant: has_key is never set
HasKey_Never(ks, claim) == FALSE

\* faulty variant: a key that expires with the claim does not cover it
HasKey_Strict(ks, claim) == ks # <<>> /\ ks[Len(ks)].expires > claim.expires

\* faulty variant: any key in the store is taken to cover the claim
HasKey_Any(ks, claim) == ks # <<>>

\* to_token: whether the newest key covers the claim
HasKey(ks, claim) == ks # <<>> /\ ks[Len(ks)].expires >= claim.expires

\* the expiry of a freshly generated key
NewKeyExpires(current_timestamp) == current_timestamp + 2 * TOKEN_DURATION

\* faulty variant: the claim gets the lifetime of a key
SignInExpires_Double(current_timestamp) == current_timestamp + 2 * TOKEN_DURATION

\* sign_in: the expiry of the issued claim
SignInExpires(current_timestamp) == current_timestamp + TOKEN_DURATION

\* to_token: the token signed with the given key
Sign(claim, key) ==
    Format(B64Encode(ToVec(claim)), B64Encode(Hmac(key.bytes, ToVec(claim))))

\* faulty variant: the result of verify_password is dropped
SignInError_NoVerify(found, passOk) == IF ~found THEN "NotFound" ELSE "Ok"

\* sign_in: the error of the user lookup and of the password check
SignInError(found, passOk) ==
    IF ~found THEN "NotFound"
    ELSE IF ~passOk THEN "WrongPassword"
    ELSE "Ok"

\* faulty variant: the privilege flag of the claim is not looked at
AddUserAllowed_Any(claim) == TRUE

\* add_user: only an admin claim gets past the check
AddUserAllowed(claim) == claim.is_admin

\* SignOutResponse::respond_to: the removal cookie is sent when the request
\* had a token cookie
SignOutRemoval(cookie) == cookie # <<>>

\* faulty variant: the result of from_token is not looked at
ExtractError_AlwaysOk(decodeOk) == "Ok"

\* from_request_sync: the extractor's error for a token that failed
ExtractError(decodeOk) == IF decodeOk THEN "Ok" ELSE "InvalidToken"

\* faulty variant: every error takes the generic arm of error_response
RemovalCookie_Never(out) == FALSE

\* ServiceError::error_response: whether the response to outcome out carries
\* the removal cookie for "token"
RemovalCookie(out) == out = "InvalidToken"

\* AuthenticateMiddleware::call: the middleware's error for a token that
\* failed ("Ok": the claim is attached and the request goes on)
MiddlewareError(decodeOk) == IF decodeOk THEN "Ok" ELSE "InvalidToken"

\* faulty variant: the guard of a poisoned mutex is used
LockUnwrapOk_IntoInner(isPoisoned) == TRUE

\* secret.lock().unwrap(): lock() of a poisoned mutex is Err, and unwrap panics
LockUnwrapOk(isPoisoned) == ~isPoisoned

\* faulty variant: the store is not guarded
CanLock_Always(holder) == TRUE

\* Mutex::lock: the mutex can be taken when nobody holds it
CanLock(holder) == holder = NoHolder

----------------------------------------------------------------------------
(* What a client may present *)

\* the token with the privilege flag of its claim segment flipped
FlipAdmin(t) == [t EXCEPT ![3] = IF t[3] = B64A THEN B64A + 1 ELSE B64A]
\* the token with the expiry of its claim segment pushed into the future
ExtendExpiry(t) == [t EXCEPT ![2] = t[2] + TOKEN_DURATION]
\* the token with the last character of its signature segment changed
FlipSignature(t) == [t EXCEPT ![Len(t)] = IF t[Len(t)] = B64A THEN B64A + 1 ELSE B64A]
\* a token for an admin claim signed with the attacker's own key
Forged(t) ==
    LET c == [FromSlice(B64Decode(SubSeq(t, 1, 3))) EXCEPT !.is_admin = TRUE]
    IN  Sign(c, [bytes |-> 0, expires |-> 0])

Tampered(t) == {FlipAdmin(t), ExtendExpiry(t), FlipSignature(t), Forged(t)}

Malformed(t) ==
    { SubSeq(t, 1, 3),                \* one segment
      t \o <<Dot>> \o SubSeq(t, 1, 3),  \* three segments
      [t EXCEPT ![1] = BadChar],      \* claim segment not base64
      [t EXCEPT ![Len(t)] = BadChar], \* signature segment not base64
      <<>> }                          \* the empty string

Presentable == UNION { {i.tok} \cup Tampered(i.tok) \cup Malformed(i.tok) : i \in held }

----------------------------------------------------------------------------
(* State *)

\* the locals of a worker that runs operation op (entry: the key sequence
\* that to_token was called on; pass_ok: whether the password of the
\* sign-in request verifies against the stored hash)
Fresh(op) ==
    [op |-> op, cookie |-> <<>>, claim |-> NoClaim, at |-> 0,
     current_timestamp |-> 0, decoded |-> FALSE, entry |-> <<>>,
     pass_ok |-> FALSE]

\* what the last step returned to its caller, if it returned anything:
\* the locals of the operation, its result, and whether the response built
\* from it carries the removal cookie
NoEvent ==
    [op |-> "none", cookie |-> <<>>, claim |-> NoClaim, at |-> 0,
     current_timestamp |-> 0, out |-> "none", decoded |-> FALSE, entry |-> <<>>,
     pass_ok |-> FALSE,
     result |-> NoClaim, token |-> <<>>, ran |-> FALSE, removal |-> FALSE]

Returned(l, out) ==
    [op |-> l.op, cookie |-> l.cookie, claim |-> l.claim, at |-> l.at,
     current_timestamp |-> l.current_timestamp, out |-> out, decoded |-> l.decoded,
     entry |-> l.entry, pass_ok |-> l.pass_ok,
     result |-> NoClaim, token |-> <<>>, ran |-> FALSE,
     removal |-> RemovalCookie(out)]

Init ==
    /\ now = BootTime
    /\ ticks = 0
    /\ keys = <<>>
    /\ generated = 0
    /\ lock = NoHolder
    /\ poisoned = FALSE
    /\ created = {}
    /\ pc = [w \in Workers |-> "idle"]
    /\ local = [w \in Workers |-> Fresh("none")]
    /\ held = {}
    /\ event = NoEvent

\* the system clock advances
Tick(d) ==
    /\ ticks < MaxTicks
    /\ now' = now + d
    /\ ticks' = ticks + 1
    /\ event' = NoEvent
    /\ UNCHANGED <<keys, generated, lock, pc, local, held, poisoned, created>>

\* the user table: the users the server starts with and the created ones
UserTable == {CreateUser(u, UserIsAdmin(u)) : u \in Users} \cup created

\* repo.get_user_by_name
GetUserByName(name) == CHOOSE u \in UserTable : u.id = name

\* sign_in up to the construction of the claim
SignInStart(w, name, passOk) ==
    /\ pc[w] = "idle"
    /\ LET found == \E u \in UserTable : u.id = name
           err == SignInError(found, passOk)
       IN  IF err # "Ok"
           THEN /\ event' = Returned(Fresh("sign_in"), err)
                /\ UNCHANGED <<pc, local>>
           ELSE /\ local' = [local EXCEPT ![w] =
                      [Fresh("sign_in") EXCEPT
                         !.at = now,
                         !.pass_ok = passOk,
                         !.claim = [id |-> name, expires |-> SignInExpires(now),
                                    is_admin |-> GetUserByName(name).is_admin]]]
                /\ pc' = [pc EXCEPT ![w] = "lock"]
                /\ event' = NoEvent
    /\ UNCHANGED <<now, ticks, keys, generated, lock, held, poisoned, created>>

\* a direct call of to_token with an arbitrary claim (SpecCodec only)
EncodeStart(w, claim) ==
    /\ pc[w] = "idle"
    /\ generated < MaxKeys
    /\ local' = [local EXCEPT ![w] = [Fresh("encode") EXCEPT !.at = now, !.claim = claim]]
    /\ pc' = [pc EXCEPT ![w] = "lock"]
    /\ event' = NoEvent
    /\ UNCHANGED <<now, ticks, keys, generated, lock, held, poisoned, created>>

\* secret.lock().unwrap() in sign_in
Lock(w) ==
    /\ pc[w] = "lock"
    /\ CanLock(lock)
    /\ IF LockUnwrapOk(poisoned)
       THEN /\ lock' = w
            /\ pc' = [pc EXCEPT ![w] = "check"]
            /\ event' = NoEvent
            /\ local' = local
       ELSE /\ lock' = lock
            /\ pc' = [pc EXCEPT ![w] = "idle"]
            /\ event' = Returned(local[w], "Panic")
            /\ local' = [local EXCEPT ![w] = Fresh("none")]
    /\ UNCHANGED <<now, ticks, keys, generated, held, poisoned, created>>

\* a request to a handler that takes a Claim, without a token cookie
FromRequestNoCookie(w) ==
    /\ pc[w] = "idle"
    /\ event' = Returned(Fresh("request"), "Unauthorized")
    /\ UNCHANGED <<now, ticks, keys, generated, lock, pc, local, held, poisoned, created>>

\* a request to a handler that takes a Claim, with a token cookie:
\* from_request_sync takes the lock (waiting until it is free; unwrap panics
\* when it is poisoned) and from_token splits and decodes the token and reads
\* the clock
FromRequestCookie(w, cookie) ==
    /\ pc[w] = "idle"
    /\ CanLock(lock)
    /\ LET l == [Fresh("request") EXCEPT !.cookie = <<cookie>>]
       IN  IF ~LockUnwrapOk(poisoned)
           THEN /\ event' = Returned(l, "Panic")
                /\ UNCHANGED <<pc, local, lock>>
           ELSE IF ParseToken(cookie).ok
           THEN /\ local' = [local EXCEPT ![w] = [l EXCEPT !.current_timestamp = now]]
                /\ pc' = [pc EXCEPT ![w] = "prune"]
                /\ lock' = w
                /\ event' = NoEvent
           ELSE /\ event' = Returned(l, ExtractError(FALSE))
                /\ UNCHANGED <<pc, local, lock>>
    /\ UNCHANGED <<now, ticks, keys, generated, held, poisoned, created>>

\* from_token: one iteration of the pruning loop
FromTokenPrune(w) ==
    /\ pc[w] = "prune"
    /\ IF ShouldPop(keys, local[w].current_timestamp)
       THEN /\ keys' = Tail(keys)
            /\ pc' = pc
       ELSE /\ keys' = keys
            /\ pc' = [pc EXCEPT ![w] = "verify"]
    /\ event' = NoEvent
    /\ UNCHANGED <<now, ticks, generated, lock, local, held, poisoned, created>>

\* from_token: the scan, the claim's own expiry, the result; the lock is
\* released when the caller's statement ends (from_request_sync, or the
\* middleware's if let)
FromTokenVerify(w) ==
    /\ pc[w] = "verify"
    /\ LET r == Verified(keys, ParseToken(local[w].cookie[1]), local[w].current_timestamp)
           out == IF local[w].op = "middleware"
                  THEN MiddlewareError(r.ok)
                  ELSE ExtractError(r.ok)
       IN  IF out = "Ok"
           THEN /\ local' = [local EXCEPT ![w].claim = r.claim, ![w].decoded = r.ok]
                /\ pc' = [pc EXCEPT ![w] = "handler"]
                /\ event' = [Returned(local[w], "Extracted") EXCEPT
                               !.decoded = r.ok, !.result = r.claim]
           ELSE /\ local' = [local EXCEPT ![w] = Fresh("none")]
                /\ pc' = [pc EXCEPT ![w] = "idle"]
                /\ event' = [Returned(local[w], out) EXCEPT !.decoded = r.ok]
    /\ lock' = NoHolder
    /\ UNCHANGED <<now, ticks, keys, generated, held, poisoned, created>>

\* a request wrapped by Authenticate, without a token cookie: the wrapped
\* service is called and no Claim is attached
MiddlewareNoCookie(w) ==
    /\ pc[w] = "idle"
    /\ event' = [Returned(Fresh("middleware"), "Ok") EXCEPT !.ran = TRUE]
    /\ UNCHANGED <<now, ticks, keys, generated, lock, poisoned, pc, local, held, created>>

\* a request wrapped by Authenticate, with a token cookie: the middleware
\* takes the lock (waiting until it is free; unwrap panics when it is
\* poisoned) and from_token splits and decodes the token and reads the clock
MiddlewareCookie(w, cookie) ==
    /\ pc[w] = "idle"
    /\ CanLock(lock)
    /\ LET l == [Fresh("middleware") EXCEPT !.cookie = <<cookie>>]
       IN  IF ~LockUnwrapOk(poisoned)
           THEN /\ event' = Returned(l, "Panic")
                /\ UNCHANGED <<pc, local, lock>>
           ELSE IF ParseToken(cookie).ok
           THEN /\ local' = [local EXCEPT ![w] = [l EXCEPT !.current_timestamp = now]]
                /\ pc' = [pc EXCEPT ![w] = "prune"]
                /\ lock' = w
                /\ event' = NoEvent
           ELSE /\ event' = Returned(l, MiddlewareError(FALSE))
                /\ UNCHANGED <<pc, local, lock>>
    /\ UNCHANGED <<now, ticks, keys, generated, poisoned, held, created>>

\* the body of the handler (check_claim), or the service wrapped by the
\* middleware: runs with the Claim that from_token returned
Handler(w) ==
    /\ pc[w] = "handler"
    /\ local' = [local EXCEPT ![w] = Fresh("none")]
    /\ pc' = [pc EXCEPT ![w] = "idle"]
    /\ event' = [Returned(local[w], "Ok") EXCEPT !.ran = TRUE, !.result = local[w].claim]
    /\ UNCHANGED <<now, ticks, keys, generated, lock, held, poisoned, created>>

\* the body of add_user, run with the extracted Claim: the privilege check,
\* then create_user with is_admin = false
AddUser(w, name) ==
    /\ pc[w] = "handler"
    /\ local[w].op = "request"
    /\ LET l == [local[w] EXCEPT !.op = "add_user"]
       IN  IF AddUserAllowed(local[w].claim)
           THEN /\ \A u \in UserTable : u.id # name
                /\ created' = created \cup {CreateUser(name, FALSE)}
                /\ event' = [Returned(l, "Ok") EXCEPT !.ran = TRUE, !.result = l.claim]
           ELSE /\ created' = created
                /\ event' = [Returned(l, "Unauthorized") EXCEPT
                               !.ran = TRUE, !.result = l.claim]
    /\ local' = [local EXCEPT ![w] = Fresh("none")]
    /\ pc' = [pc EXCEPT ![w] = "idle"]
    /\ UNCHANGED <<now, ticks, keys, generated, lock, poisoned, held>>

\* sign_out: takes no Claim and no store; cookie is <<>> or <<the token>>
SignOut(w, cookie) ==
    /\ pc[w] = "idle"
    /\ event' = [Returned([Fresh("sign_out") EXCEPT !.cookie = cookie], "Ok") EXCEPT
                   !.removal = SignOutRemoval(cookie)]
    /\ held' = {IF cookie = <<i.tok>> THEN [i EXCEPT !.signed_out = TRUE] ELSE i : i \in held}
    /\ UNCHANGED <<now, ticks, keys, generated, lock, poisoned, created, pc, local>>

\* to_token: does the newest key cover the claim?
ToTokenCheck(w) ==
    /\ pc[w] = "check"
    /\ pc' = [pc EXCEPT ![w] = IF HasKey(keys, local[w].claim) THEN "sign" ELSE "mint"]
    /\ local' = [local EXCEPT ![w].entry = keys]
    /\ event' = NoEvent
    /\ UNCHANGED <<now, ticks, keys, generated, lock, held, poisoned, created>>

\* to_token: generate a key and append it
ToTokenMint(w) ==
    /\ pc[w] = "mint"
    /\ keys' = Append(keys, [bytes |-> generated + 1, expires |-> NewKeyExpires(now)])
    /\ generated' = generated + 1
    /\ pc' = [pc EXCEPT ![w] = "sign"]
    /\ event' = NoEvent
    /\ UNCHANGED <<now, ticks, lock, local, held, poisoned, created>>

\* to_token: the random source fails and Key::generate panics; the guard is
\* dropped while the thread unwinds, which poisons the mutex
ToTokenMintPanic(w) ==
    /\ pc[w] = "mint"
    /\ poisoned' = TRUE
    /\ lock' = NoHolder
    /\ pc' = [pc EXCEPT ![w] = "idle"]
    /\ event' = Returned(local[w], "Panic")
    /\ local' = [local EXCEPT ![w] = Fresh("none")]
    /\ UNCHANGED <<now, ticks, keys, generated, held, created>>

\* to_token: sign with the newest key; the lock is released when the
\* statement of sign_in ends.  held is the token this model follows from
\* then on (the new one, or the one followed so far), with the claim it was
\* issued for, the key that signed it, the time its operation started and
\* whether its client has signed out since
ToTokenSign(w) ==
    /\ pc[w] = "sign"
    /\ LET key == keys[Len(keys)]
           token == Sign(local[w].claim, key)
       IN  /\ event' = [Returned(local[w], "Ok") EXCEPT !.token = token]
           /\ \/ held' = held
              \/ held' = {[tok |-> token, claim |-> local[w].claim, op |-> local[w].op,
                           key |-> key, at |-> local[w].at, signed_out |-> FALSE]}
    /\ local' = [local EXCEPT ![w] = Fresh("none")]
    /\ lock' = NoHolder
    /\ pc' = [pc EXCEPT ![w] = "idle"]
    /\ UNCHANGED <<now, ticks, keys, generated, poisoned, created>>

Next ==
    \/ \E d \in Steps : Tick(d)
    \/ \E w \in Workers, name \in UserNames, passOk \in BOOLEAN : SignInStart(w, name, passOk)
    \/ \E w \in Workers : Lock(w)
    \/ \E w \in Workers : FromRequestNoCookie(w)
    \/ \E w \in Workers, cookie \in Presentable : FromRequestCookie(w, cookie)
    \/ \E w \in Workers : FromTokenPrune(w)
    \/ \E w \in Workers : FromTokenVerify(w)
    \/ \E w \in Workers : Handler(w)
    \/ \E w \in Workers : ToTokenCheck(w)
    \/ \E w \in Workers : ToTokenMint(w)
    \/ \E w \in Workers : ToTokenSign(w)

Spec == Init /\ [][Next]_vars

\* the claims a direct caller of to_token may pass
Claims ==
    [id : Users,
     expires : {now - 1, now, now + 1, NewKeyExpires(now) + 1},
     is_admin : BOOLEAN]

\* to_token and from_token called in sequence by one worker, with any claim
NextCodec ==
    \/ \E d \in Steps : Tick(d)
    \/ \E claim \in Claims : EncodeStart(1, claim)
    \/ Lock(1)
    \/ FromRequestNoCookie(1)
    \/ \E cookie \in Presentable : FromRequestCookie(1, cookie)
    \/ FromTokenPrune(1)
    \/ FromTokenVerify(1)
    \/ Handler(1)
    \/ ToTokenCheck(1)
    \/ ToTokenMint(1)
    \/ ToTokenSign(1)

SpecCodec == Init /\ [][NextCodec]_vars

\* the program over a longer time
NextRotation ==
    \/ \E d \in LongSteps : Tick(d)
    \/ \E w \in Workers, name \in UserNames, passOk \in BOOLEAN : SignInStart(w, name, passOk)
    \/ \E w \in Workers : Lock(w)
    \/ \E w \in Workers : FromRequestNoCookie(w)
    \/ \E w \in Workers, cookie \in Presentable : FromRequestCookie(w, cookie)
    \/ \E w \in Workers : FromTokenPrune(w)
    \/ \E w \in Workers : FromTokenVerify(w)
    \/ \E w \in Workers : Handler(w)
    \/ \E w \in Workers : ToTokenCheck(w)
    \/ \E w \in Workers : ToTokenMint(w)
    \/ \E w \in Workers : ToTokenSign(w)

SpecRotation == Init /\ [][NextRotation]_vars

\* the services of configure (sign_in, sign_out, check_claim, add_user) on
\* one worker
NextService ==
    \/ \E d \in Steps : Tick(d)
    \/ \E name \in UserNames, passOk \in BOOLEAN : SignInStart(1, name, passOk)
    \/ Lock(1)
    \/ FromRequestNoCookie(1)
    \/ \E cookie \in Presentable : FromRequestCookie(1, cookie)
    \/ FromTokenPrune(1)
    \/ FromTokenVerify(1)
    \/ Handler(1)
    \/ \E name \in UserNames : AddUser(1, name)
    \/ \E cookie \in {<<>>} \cup {<<t>> : t \in Presentable} : SignOut(1, cookie)
    \/ ToTokenCheck(1)
    \/ ToTokenMint(1)
    \/ ToTokenSign(1)

SpecService == Init /\ [][NextService]_vars

\* the program with both boundaries and a random source that can fail:
\* worker 1 serves the requests to handlers that take a Claim, worker 2 the
\* requests wrapped by the Authenticate middleware, and both serve sign-in
NextBoundary ==
    \/ \E d \in Steps : Tick(d)
    \/ \E w \in Workers, name \in UserNames, passOk \in BOOLEAN : SignInStart(w, name, passOk)
    \/ \E w \in Workers : Lock(w)
    \/ FromRequestNoCookie(1)
    \/ \E cookie \in Presentable : FromRequestCookie(1, cookie)
    \/ MiddlewareNoCookie(2)
    \/ \E cookie \in Presentable : MiddlewareCookie(2, cookie)
    \/ \E w \in Workers : FromTokenPrune(w)
    \/ \E w \in Workers : FromTokenVerify(w)
    \/ \E w \in Workers : Handler(w)
    \/ \E w \in Workers : ToTokenCheck(w)
    \/ \E w \in Workers : ToTokenMint(w)
    \/ \E w \in Workers : ToTokenMintPanic(w)
    \/ \E w \in Workers : ToTokenSign(w)

SpecBoundary == Init /\ [][NextBoundary]_vars

----------------------------------------------------------------------------
(* The claims *)

\* the last step returned from from_token called on token t
DecodeOf(t) ==
    /\ event.op = "request"
    /\ event.cookie = <<t>>
    /\ ~event.ran

\* exactly two '.'-separated segments, each of them base64
WellShaped(s) ==
    /\ Len(Split(s)) = 2
    /\ \A n \in 1..2 : B64DecodeOk(Split(s)[n])

InStore(key) == \E n \in 1..Len(keys) : keys[n] = key

\* C1: a token signed under key K1 still decodes, to its claim, after a newer
\* key was generated, at every time before K1 expires at which the claim has
\* not expired
RotationOverlap ==
    \A i \in held :
        ( /\ DecodeOf(i.tok)
          /\ generated > i.key.bytes
          /\ event.current_timestamp < i.key.expires
          /\ event.current_timestamp < i.claim.expires )
        => (event.decoded /\ event.result = i.claim)

RotationOverlapWitness ==
    \E i \in held :
        /\ DecodeOf(i.tok)
        /\ event.decoded
        /\ Len(keys) = 2
        /\ keys[1] = i.key
        /\ keys[2].bytes > i.key.bytes

\* C2: at every time strictly before the expiry of a claim issued by sign-in
\* the key that signed its token is in the store and has not expired, and a
\* Decode of the token at such a time succeeds
NoLockOut ==
    \A i \in held :
        i.op = "sign_in" =>
            /\ now < i.claim.expires => (InStore(i.key) /\ i.key.expires > now)
            /\ (DecodeOf(i.tok) /\ event.current_timestamp < i.claim.expires)
                   => (event.decoded /\ event.result = i.claim)

NoLockOutWitness ==
    \E i \in held :
        /\ i.op = "sign_in"
        /\ DecodeOf(i.tok)
        /\ event.decoded
        /\ event.current_timestamp > i.at
        /\ generated > i.key.bytes

\* C3: Decode of the token Encode returned for a claim that expires in the
\* future, with no clock advance in between, returns a claim with the same
\* id, expires and is_admin
RoundTrip ==
    \A i \in held :
        ( /\ DecodeOf(i.tok)
          /\ event.current_timestamp = i.at
          /\ i.claim.expires > i.at )
        => /\ event.decoded
           /\ event.result.id = i.claim.id
           /\ event.result.expires = i.claim.expires
           /\ event.result.is_admin = i.claim.is_admin

RoundTripWitness ==
    \E i \in held :
        /\ i.op = "encode"
        /\ i.claim.is_admin
        /\ DecodeOf(i.tok)
        /\ event.current_timestamp = i.at
        /\ event.decoded
        /\ Len(keys) > 1

\* C4: Decode fails for every token whose claim has expires <= the current
\* time, also when its signature verifies under a retained key
ClaimLevelExpiry ==
    ( /\ event.op = "request"
      /\ event.cookie # <<>>
      /\ ~event.ran
      /\ WellShaped(event.cookie[1])
      /\ FromSliceOk(ParseToken(event.cookie[1]).claim_raw)
      /\ FromSlice(ParseToken(event.cookie[1]).claim_raw).expires
             <= event.current_timestamp )
    => ~event.decoded

\* C5: Decode returns a claim only if the signature is the MAC of the claim
\* bytes under a key in the store, and every tampered token fails
TamperRejection ==
    /\ (event.op = "request" /\ event.decoded /\ ~event.ran) =>
           \E n \in 1..Len(keys) :
               B64Decode(Split(event.cookie[1])[2])
                   = Hmac(keys[n].bytes, B64Decode(Split(event.cookie[1])[1]))
    /\ \A i \in held : \A t \in Tampered(i.tok) :
           DecodeOf(t) => (~event.decoded /\ event.out = "InvalidToken")

TamperRejectionWitness ==
    \E i \in held :
        /\ InStore(i.key)
        /\ i.claim.expires > now
        /\ DecodeOf(FlipSignature(i.tok)) \/ DecodeOf(ExtendExpiry(i.tok))
        /\ event.out = "InvalidToken"

\* C6: every key the scan of Decode tries has expires > the time Decode
\* read, and a token signed under a key with expires <= that time fails
KeyLevelExpiry ==
    /\ \A w \in Workers :
           pc[w] = "verify" =>
               \A n \in 1..Len(keys) : keys[n].expires > local[w].current_timestamp
    /\ \A i \in held :
           (DecodeOf(i.tok) /\ i.key.expires <= event.current_timestamp)
               => ~event.decoded

KeyLevelExpiryWitness ==
    \E i \in held :
        /\ DecodeOf(i.tok)
        /\ i.key.expires <= event.current_timestamp
        /\ i.claim.expires >= event.current_timestamp
        /\ event.out = "InvalidToken"

\* C7: Decode fails for every token that is not two base64 segments, and the
\* step that fails leaves the key store as it was
MalformedShape ==
    [][ ( /\ event'.op = "request"
          /\ event'.cookie # <<>>
          /\ ~WellShaped(event'.cookie[1]) )
        => ( /\ event'.out = "InvalidToken"
             /\ ~event'.decoded
             /\ keys' = keys ) ]_vars

MalformedShapeWitness ==
    /\ event.op = "request"
    /\ event.cookie # <<>>
    /\ Len(Split(event.cookie[1])) = 3
    /\ event.out = "InvalidToken"
    /\ keys # <<>>
    /\ keys[1].expires <= now

\* C8: sign-in issues a token for {id = U, expires = now + 172800,
\* is_admin = U's flag}; Decode of it at once returns that claim, and Decode
\* at any time >= issue time + 172800 + 1 fails
EndToEnd ==
    /\ (event.op = "sign_in" /\ event.out = "Ok") =>
           /\ event.claim.id \in Users
           /\ event.claim.expires = event.at + 172800
           /\ event.claim.is_admin = UserIsAdmin(event.claim.id)
           /\ WellShaped(event.token)
           /\ FromSlice(B64Decode(Split(event.token)[1])) = event.claim
    /\ \A i \in held :
           i.op = "sign_in" =>
               /\ (DecodeOf(i.tok) /\ event.current_timestamp = i.at)
                      => (event.decoded /\ event.result = i.claim)
               /\ (DecodeOf(i.tok) /\ event.current_timestamp >= i.claim.expires + 1)
                      => (~event.decoded /\ event.out = "InvalidToken")

EndToEndWitness ==
    \E i \in held :
        /\ i.op = "sign_in"
        /\ i.claim.is_admin
        /\ DecodeOf(i.tok)
        /\ event.current_timestamp = i.claim.expires + 1
        /\ InStore(i.key)
        /\ event.out = "InvalidToken"

\* the worker is inside from_token or to_token
InCriticalSection(w) == pc[w] \in {"check", "mint", "sign", "prune", "verify"}

\* C9: the key sequence changes only in steps of the worker that holds the
\* lock, at most one worker is inside from_token or to_token, and a Decode of
\* a token that Encode returned, of a claim not yet expired, does not fail
ConcurrencySafety ==
    /\ [](\A w \in Workers : InCriticalSection(w) => lock = w)
    /\ [](\A i \in held :
              (DecodeOf(i.tok) /\ event.current_timestamp < i.claim.expires
                 /\ event.current_timestamp < i.key.expires)
              => event.decoded)
    /\ [][ keys' # keys =>
              /\ lock \in Workers
              /\ lock' = lock
              /\ pc[lock] \in {"prune", "mint"} ]_vars

ConcurrencySafetyWitness ==
    \E i \in held : \E w \in Workers :
        /\ DecodeOf(i.tok)
        /\ event.decoded
        /\ event.current_timestamp = i.at
        /\ pc[w] = "lock"
        /\ ~HasKey(keys, local[w].claim)

\* C10: a request without a token cookie ends Unauthorized, one whose token
\* fails Decode ends InvalidToken, and the handler runs only with a claim
\* that Decode returned
HardMode ==
    /\ (event.op = "request" /\ event.cookie = <<>>) =>
           (event.out = "Unauthorized" /\ ~event.ran)
    /\ (event.op = "request" /\ event.cookie # <<>> /\ ~event.decoded) =>
           (event.out = "InvalidToken" /\ ~event.ran)
    /\ event.ran => (event.decoded /\ event.cookie # <<>> /\ event.result.id \in Users)
    /\ \A w \in Workers : pc[w] = "handler" => local[w].decoded

HardModeWitness ==
    /\ event.op = "request"
    /\ event.ran
    /\ event.result.is_admin

\* C11: a request through the Authenticate middleware whose token is missing
\* and one whose token fails Decode both reach the wrapped service, with no
\* Claim attached, and neither is rejected
SoftMode ==
    (event.op = "middleware" /\ ~event.decoded /\ event.out # "Panic") =>
        (event.ran /\ event.out = "Ok" /\ event.result = NoClaim)

\* C12: the response to a request whose token failed Decode carries the
\* removal cookie, and no other response does (not the one to a request
\* without a token, nor the one to any other error or to a success)
CarrierClearing ==
    /\ ( /\ event.op \in {"request", "middleware"}
         /\ event.cookie # <<>>
         /\ event.out # "Panic"
         /\ ~event.decoded ) => event.removal
    /\ event.removal =>
           /\ event.op \in {"request", "middleware"}
           /\ event.cookie # <<>>
           /\ ~event.decoded
           /\ ~event.ran

CarrierClearingWitness ==
    \E i \in held :
        /\ DecodeOf(i.tok)
        /\ InStore(i.key)
        /\ event.current_timestamp > i.claim.expires
        /\ event.removal

\* the step returned from an operation that takes the lock of the store
TokenOperation(e) ==
    \/ e.op \in {"request", "middleware"} /\ e.cookie # <<>> /\ ~e.ran
    \/ e.op = "sign_in" /\ e.out \notin {"NotFound", "WrongPassword"}

\* C13: once the lock is poisoned it stays poisoned, no worker is inside
\* from_token or to_token, no Decode returns a claim and no Encode a token,
\* and every operation that takes the lock ends in a panic of its request
LockFailClosed ==
    /\ [](poisoned => (lock = NoHolder /\ \A w \in Workers : ~InCriticalSection(w)))
    /\ [](poisoned => (event.out # "Extracted" /\ event.token = <<>>))
    /\ [][poisoned => poisoned']_vars
    /\ [][(poisoned /\ TokenOperation(event')) =>
             /\ event'.out = "Panic"
             /\ ~event'.decoded
             /\ keys' = keys ]_vars

LockFailClosedWitness ==
    \E i \in held :
        /\ poisoned
        /\ event.op = "request"
        /\ event.cookie = <<i.tok>>
        /\ event.out = "Panic"
        /\ InStore(i.key)
        /\ i.key.expires > now
        /\ i.claim.expires > now

\* the step returned a token from to_token
EncodeReturned(e) == e.op \in {"sign_in", "encode"} /\ e.out = "Ok"

\* C14: Encode appends one key if the store it was called on is empty or its
\* last key expires before the claim does, and none otherwise; an appended
\* key expires at the current time + 2 * TOKEN_DURATION; the token is signed
\* with the last key of the store
MintingRule ==
    /\ [](EncodeReturned(event) =>
             /\ IF \/ event.entry = <<>>
                   \/ event.entry[Len(event.entry)].expires < event.claim.expires
                THEN /\ Len(keys) = Len(event.entry) + 1
                     /\ SubSeq(keys, 1, Len(event.entry)) = event.entry
                ELSE keys = event.entry
             /\ event.token = Sign(event.claim, keys[Len(keys)]))
    /\ [][ Len(keys') > Len(keys) =>
              /\ keys' = Append(keys, keys'[Len(keys')])
              /\ keys'[Len(keys')].expires = now + 2 * TOKEN_DURATION ]_vars

MintingRuleWitness ==
    /\ EncodeReturned(event)
    /\ keys = event.entry
    /\ keys # <<>>
    /\ keys[Len(keys)].expires = event.claim.expires

\* C15: when Encode returns, the store holds no expired key: none whose
\* expires <= the time at which that Encode began (Encode removed them from
\* the front before it chose the signing key)
PruningInRotation ==
    EncodeReturned(event) => \A n \in 1..Len(keys) : keys[n].expires > event.at

\* C16: a Decode leaves the key sequence as it was: no step of from_token
\* changes it
DecodeReadOnly ==
    [][ (\E w \in Workers : pc[w] \in {"prune", "verify"}) => keys' = keys ]_vars

\* C17: the claim of every token Encode returns expires no later than the
\* key that signed it, which is the last key of the store
SigningKeyCoverage ==
    /\ EncodeReturned(event) =>
           /\ event.claim.expires <= keys[Len(keys)].expires
           /\ event.token = Sign(event.claim, keys[Len(keys)])
    /\ \A i \in held : i.claim.expires <= i.key.expires

SigningKeyCoverageWitness ==
    /\ EncodeReturned(event)
    /\ event.op = "sign_in"
    /\ Len(keys) = Len(event.entry) + 1
    /\ keys[Len(keys)].expires > NewKeyExpires(event.at)

\* C18: the key Encode signs with has expires > the current time when it
\* signs
NeverSignsExpired ==
    EncodeReturned(event) => keys[Len(keys)].expires > now

\* C19: the key sequence is in ascending order of expires, every appended
\* key expires later than every key in the store, and after the pruning
\* loop of Decode no key with expires <= the time it read is left
OrderingInvariant ==
    /\ [](\A m, n \in 1..Len(keys) : m < n => keys[m].expires < keys[n].expires)
    /\ [][ Len(keys') > Len(keys) =>
              \A n \in 1..Len(keys) : keys[n].expires < keys'[Len(keys')].expires ]_vars
    /\ [](\A w \in Workers :
             pc[w] = "verify" =>
                 \A n \in 1..Len(keys) : ~KeyExpired(keys[n], local[w].current_timestamp))

OrderingInvariantWitness ==
    /\ Len(keys) = 2
    /\ keys[1].expires <= now
    /\ keys[2].expires > now
    /\ \E w \in Workers : pc[w] = "prune"

\* C20: the store never holds more than 2 keys
BoundedStore == Len(keys) <= 2

\* C21: a key of the store is still in the store after every step that
\* ends at a time < its expires (no Encode or Decode removes a key that has
\* not expired), and the key that signed a token is in the store at every
\* time < its expires
KeyPersistence ==
    /\ [][ \A n \in 1..Len(keys) :
               keys[n].expires > now' => \E m \in 1..Len(keys') : keys'[m] = keys[n] ]_vars
    /\ [](\A i \in held : i.key.expires > now => InStore(i.key))

KeyPersistenceWitness ==
    /\ generated = 2
    /\ Len(keys) = 1
    /\ keys[1].bytes = 2
    /\ \E w \in Workers : pc[w] = "verify"

\* C22: a worker that computes and compares the MAC in Decode does not hold
\* the lock of the store
LockScope ==
    \A w \in Workers : pc[w] = "verify" => lock # w

\* C23: add_user run with a claim that is not an admin's returns
\* Unauthorized and adds no user; run with an admin's claim it adds one user,
\* who is not an admin; no created user is an admin, and every admin claim
\* that sign-in issued is for the admin the server started with
PrivilegeGating ==
    /\ [][ (event'.op = "add_user" /\ ~event'.result.is_admin) =>
              (event'.out = "Unauthorized" /\ created' = created) ]_vars
    /\ [][ (event'.op = "add_user" /\ event'.result.is_admin) =>
              /\ event'.out = "Ok"
              /\ \E u \in created' : ~u.is_admin /\ created' = created \cup {u} ]_vars
    /\ [](\A u \in created : ~u.is_admin)
    /\ [](\A u \in UserTable : u.is_admin => UserIsAdmin(u.id))
    /\ [](\A i \in held : i.claim.is_admin => UserIsAdmin(i.claim.id))

PrivilegeGatingWitness ==
    \E u \in created :
        /\ event.op = "add_user"
        /\ event.result.id = u.id
        /\ event.out = "Unauthorized"

\* C24: a key is minted only if the store is empty or its newest key has
\* less than TOKEN_DURATION left at the issue time of the claim; a sign-in
\* issued within TOKEN_DURATION after the newest key was minted mints none;
\* the keys of the store were minted more than TOKEN_DURATION apart; at most
\* 2 keys of the store have expires > now
RotationSpacing ==
    /\ [][ Len(keys') > Len(keys) =>
              /\ lock \in Workers
              /\ \/ keys = <<>>
                 \/ keys[Len(keys)].expires - local[lock].at < TOKEN_DURATION ]_vars
    /\ []( ( /\ EncodeReturned(event)
             /\ event.entry # <<>>
             /\ event.at + TOKEN_DURATION <= event.entry[Len(event.entry)].expires )
           => keys = event.entry )
    /\ [](\A m, n \in 1..Len(keys) :
             m < n => keys[n].expires - keys[m].expires > TOKEN_DURATION)
    /\ [](Cardinality({n \in 1..Len(keys) : keys[n].expires > now}) <= 2)

RotationSpacingWitness ==
    /\ EncodeReturned(event)
    /\ event.op = "sign_in"
    /\ Len(keys) = 2
    /\ keys = event.entry
    /\ keys[1].expires < event.claim.expires
    /\ keys[2].expires >= NewKeyExpires(event.at)

\* C25: sign-out changes nothing on the server and sends the removal cookie
\* exactly when a token cookie was presented; a token presented after its
\* client signed out decodes to its claim at every time before the claim
\* expires; a sign-in with an unknown user or a wrong password returns no
\* token and appends no key, and every token sign-in returns is for a user
\* of the table whose password verified
SessionUntouched ==
    /\ [][ event'.op = "sign_out" =>
              /\ keys' = keys /\ generated' = generated /\ created' = created
              /\ lock' = lock /\ pc' = pc
              /\ event'.token = <<>>
              /\ event'.removal <=> event'.cookie # <<>> ]_vars
    /\ [](\A i \in held :
             ( /\ i.signed_out
               /\ DecodeOf(i.tok)
               /\ event.current_timestamp < i.claim.expires )
             => (event.decoded /\ event.result = i.claim))
    /\ [][ (event'.op = "sign_in" /\ event'.out \in {"NotFound", "WrongPassword"}) =>
              /\ keys' = keys /\ generated' = generated
              /\ held' = held /\ pc' = pc
              /\ event'.token = <<>> ]_vars
    /\ []((event.op = "sign_in" /\ event.token # <<>>) =>
             /\ event.pass_ok
             /\ \E u \in UserTable : u.id = event.claim.id)

SessionUntouchedWitness ==
    \E i \in held :
        /\ i.signed_out
        /\ DecodeOf(i.tok)
        /\ event.decoded
        /\ event.current_timestamp > i.at
        /\ generated > i.key.bytes

====
